---- MODULE Spec2Model ----
(***************************************************************************)
(* A model of the openHAB n8n node: the request dispatcher                 *)
(* (openhabApiRequest) and the per-row executor (openHAB.execute) of       *)
(* src/src/nodes/openHAB/openHAB.node.ts.                                  *)
(*                                                                         *)
(* JavaScript values are tagged records: [t |-> "undefined"],              *)
(* [t |-> "string", s |-> <<chars>>], [t |-> "number", n |-> 200], ...     *)
(* A string is a sequence of one-character strings wherever the code looks *)
(* inside it (toLowerCase, toUpperCase, trim, replace, slice); a literal   *)
(* the code only concatenates is kept as one element.                      *)
(***************************************************************************)
EXTENDS Integers, Sequences, FiniteSets, TLC

\* ------------------------------------------------------------------ bounds

\* Largest number of input rows of one execute() batch.
MaxItems == 2

\* Largest number of elements of an array the server returns.
MaxArr == 2

\* ------------------------------------------------------- JavaScript values

Undefined == [t |-> "undefined"]

Null == [t |-> "null"]

Str(s) == [t |-> "string", s |-> s]

Num(n) == [t |-> "number", n |-> n]

\* JavaScript truthiness of a string-or-undefined value: !v
Falsy(v) == v.t \in {"undefined", "null"} \/ (v.t = "string" /\ v.s = <<>>)

\* a ?? b
Coalesce(a, b) == IF a.t \in {"undefined", "null"} THEN b ELSE a

\* ------------------------------------------------------------------ strings

UpperAlpha ==
  <<"A","B","C","D","E","F","G","H","I","J","K","L","M",
    "N","O","P","Q","R","S","T","U","V","W","X","Y","Z">>

LowerAlpha ==
  <<"a","b","c","d","e","f","g","h","i","j","k","l","m",
    "n","o","p","q","r","s","t","u","v","w","x","y","z">>

IndexIn(alpha, c) == CHOOSE k \in 1..Len(alpha) : alpha[k] = c

LowerChar(c) ==
  IF \E k \in 1..Len(UpperAlpha) : UpperAlpha[k] = c
    THEN LowerAlpha[IndexIn(UpperAlpha, c)]
    ELSE c

UpperChar(c) ==
  IF \E k \in 1..Len(LowerAlpha) : LowerAlpha[k] = c
    THEN UpperAlpha[IndexIn(LowerAlpha, c)]
    ELSE c

\* String.prototype.toLowerCase
toLowerCase(s) == [k \in 1..Len(s) |-> LowerChar(s[k])]

\* String.prototype.toUpperCase
toUpperCase(s) == [k \in 1..Len(s) |-> UpperChar(s[k])]

WhiteSpace == {" ", "\t", "\n"}

RECURSIVE TrimStart(_)
TrimStart(s) ==
  IF s # <<>> /\ Head(s) \in WhiteSpace THEN TrimStart(Tail(s)) ELSE s

RECURSIVE TrimEnd(_)
TrimEnd(s) ==
  IF s # <<>> /\ s[Len(s)] \in WhiteSpace
    THEN TrimEnd(SubSeq(s, 1, Len(s) - 1))
    ELSE s

\* String.prototype.trim
trim(s) == TrimEnd(TrimStart(s))

\* s.replace(/\/+$/, ''): the trailing run of slashes is removed
RECURSIVE StripTrailingSlashes(_)
StripTrailingSlashes(s) ==
  IF s # <<>> /\ s[Len(s)] = "/"
    THEN StripTrailingSlashes(SubSeq(s, 1, Len(s) - 1))
    ELSE s

\* -------------------------------------------------------- string constants

S_token == <<"t","o","k","e","n">>

S_cloud == <<"c","l","o","u","d">>

S_basic == <<"b","a","s","i","c">>

S_GET == <<"G","E","T">>

S_HEAD == <<"H","E","A","D">>

S_POST == <<"P","O","S","T">>

S_PUT == <<"P","U","T">>

CloudBaseUrl == <<"https://home.myopenhab.org">>

LocalDefaultBaseUrl == <<"http://localhost:8080">>

RestPrefix == <<"/rest">>

\* ------------------------------------------------------------------ headers

\* headers[k] = v on a JavaScript object
Put(h, k, v) == [x \in (DOMAIN h) \cup {k} |-> IF x = k THEN v ELSE h[x]]

\* { ...a, ...b }
Spread(a, b) ==
  [x \in (DOMAIN a) \cup (DOMAIN b) |-> IF x \in DOMAIN b THEN b[x] ELSE a[x]]

EmptyObject == [x \in {} |-> <<>>]

H_Accept == "Accept"

H_Authorization == "Authorization"

H_Token == "X-OPENHAB-TOKEN"

H_ContentType == "Content-Type"

V_TextPlain == <<"text/plain">>

V_Json == <<"application/json">>

\* `Bearer ${token}`
BearerOf(token) == <<"Bearer ">> \o token

\* ------------------------------------------------------------------- errors

E_BasicUnsupported ==
  <<"Local Basic Auth is no longer supported. Use \"API Token (local openHAB)\" or \"myopenHAB Account\".">>

E_BaseUrlMissing == <<"Base URL is missing in credentials.">>

E_CloudCredentials == <<"Username and password are required for myopenHAB Account.">>

E_TokenRequired == <<"API token is required.">>

E_SelfSigned ==
  <<"Self-signed certificates are not allowed for myopenHAB authentication. Disable \"Allow Self-Signed Certificates\" in credentials.">>

E_MissingStatus == <<"openHAB request failed: missing HTTP status code in response.">>

ConfigErrors ==
  {E_BasicUnsupported, E_BaseUrlMissing, E_CloudCredentials, E_TokenRequired, E_SelfSigned}

Throw(msg) == [kind |-> "throw", message |-> msg]

Return(value) == [kind |-> "return", value |-> value]

\* ------------------------------------------------------- formatDebugBody

\* The length beyond which formatDebugBody cuts a rendering.
DebugBodyLimit == 300

Ellipsis == <<".", ".", ".">>

\* Mutant of Truncate: a rendering of exactly the limit is cut as well.
Truncate_AtLimit(s) ==
  IF Len(s) >= DebugBodyLimit THEN SubSeq(s, 1, DebugBodyLimit) \o Ellipsis ELSE s

Truncate(s) ==
  IF Len(s) > DebugBodyLimit THEN SubSeq(s, 1, DebugBodyLimit) \o Ellipsis ELSE s

RECURSIVE Digits(_)
\* String(n) of a non-negative integer
Digits(n) ==
  LET d == <<"0","1","2","3","4","5","6","7","8","9">>[(n % 10) + 1]
  IN IF n < 10 THEN <<d>> ELSE Digits(n \div 10) \o <<d>>

RECURSIVE JsonStringify(_)
\* JSON.stringify: an object carries its own rendering (json); an array is
\* the renderings of its elements between brackets, separated by commas.
JsonStringify(v) ==
  CASE v.t = "object" -> v.json
    [] v.t = "array" ->
         LET RECURSIVE Join(_)
             Join(es) ==
               IF es = <<>> THEN <<>>
               ELSE IF Len(es) = 1 THEN JsonStringify(es[1])
               ELSE JsonStringify(es[1]) \o <<",">> \o Join(Tail(es))
         IN <<"[">> \o Join(v.elems) \o <<"]">>
    [] v.t = "string" -> <<"\"">> \o v.s \o <<"\"">>
    [] v.t = "number" -> Digits(v.n)
    [] OTHER -> <<"null">>

formatDebugBody(value) ==
  CASE value.t = "string" -> Truncate(value.s)
    [] value.t \in {"object", "array"} -> Truncate(JsonStringify(value))
    [] value.t = "number" -> Digits(value.n)
    [] value.t = "null" -> <<"null">>
    [] OTHER -> <<"undefined">>

\* ------------------------------------------- openhabApiRequest: the request

RawAuthType(credentials) ==
  toLowerCase(Coalesce(credentials.authType, Str(S_token)).s)

AuthTypeOf(credentials) ==
  IF RawAuthType(credentials) = S_cloud THEN "cloud" ELSE "token"

UseCloud(credentials) == AuthTypeOf(credentials) = "cloud"

ConfiguredLocalBaseUrl(credentials) ==
  trim(Coalesce(credentials.baseUrlLocal,
                Coalesce(credentials.baseUrl, Str(<<>>))).s)

\* Mutant of BaseUrl: the trailing slashes are left in place.
BaseUrl_NoStrip(credentials) ==
  IF UseCloud(credentials) THEN CloudBaseUrl
  ELSE IF ConfiguredLocalBaseUrl(credentials) # <<>>
         THEN ConfiguredLocalBaseUrl(credentials)
         ELSE LocalDefaultBaseUrl

BaseUrl(credentials) ==
  StripTrailingSlashes(
    IF UseCloud(credentials) THEN CloudBaseUrl
    ELSE IF ConfiguredLocalBaseUrl(credentials) # <<>>
           THEN ConfiguredLocalBaseUrl(credentials)
           ELSE LocalDefaultBaseUrl)

NormalizedMethod(method) == toUpperCase(method)

\* Mutant of IsReadOperation: the verb is compared as passed, not upper-cased.
IsReadOperation_CaseSensitive(method) == method \in {S_GET, S_HEAD}

IsReadOperation(method) == NormalizedMethod(method) \in {S_GET, S_HEAD}

\* Mutant of InitialHeaders: the Accept default is written over extraHeaders.
InitialHeaders_AcceptLast(options) ==
  Spread(options.extraHeaders,
         H_Accept :> (IF options.plainText THEN V_TextPlain ELSE V_Json))

\* const headers = { Accept: ..., ...(options.extraHeaders ?? {}) }
InitialHeaders(options) ==
  Spread(H_Accept :> (IF options.plainText THEN V_TextPlain ELSE V_Json),
         options.extraHeaders)

CloudToken(credentials) == trim(Coalesce(credentials.cloudToken, Str(<<>>)).s)

\* Mutant of AuthHeaders: local mode sends the bearer header alone.
AuthHeaders_BearerOnly(credentials, headers) ==
  IF AuthTypeOf(credentials) = "cloud"
    THEN IF CloudToken(credentials) # <<>>
           THEN Put(headers, H_Token, CloudToken(credentials))
           ELSE headers
    ELSE Put(headers, H_Authorization, BearerOf(credentials.token.s))

\* The header assignments of the two authentication branches.
AuthHeaders(credentials, headers) ==
  IF AuthTypeOf(credentials) = "cloud"
    THEN IF CloudToken(credentials) # <<>>
           THEN Put(headers, H_Token, CloudToken(credentials))
           ELSE headers
    ELSE Put(Put(headers, H_Authorization, BearerOf(credentials.token.s)),
             H_Token, credentials.token.s)

ContentTypeHeaders(method, options, headers) ==
  IF ~IsReadOperation(method)
    THEN Put(headers, H_ContentType,
             IF options.plainText THEN V_TextPlain ELSE V_Json)
    ELSE headers

RequestHeaders(credentials, method, options) ==
  ContentTypeHeaders(method, options,
    AuthHeaders(credentials, InitialHeaders(options)))

\* Mutant of ConfigError: the check of cloud mode with self-signed
\* certificates is missing.
ConfigError_NoSelfSignedCheck(credentials) ==
  IF RawAuthType(credentials) = S_basic THEN E_BasicUnsupported
  ELSE IF BaseUrl(credentials) = <<>> THEN E_BaseUrlMissing
  ELSE IF AuthTypeOf(credentials) = "cloud"
            /\ (Falsy(credentials.username) \/ Falsy(credentials.password))
         THEN E_CloudCredentials
  ELSE IF AuthTypeOf(credentials) # "cloud" /\ Falsy(credentials.token)
         THEN E_TokenRequired
  ELSE <<>>

\* The configuration errors, in the order the code raises them; <<>> when
\* the call reaches the transport.
ConfigError(credentials) ==
  IF RawAuthType(credentials) = S_basic THEN E_BasicUnsupported
  ELSE IF BaseUrl(credentials) = <<>> THEN E_BaseUrlMissing
  ELSE IF AuthTypeOf(credentials) = "cloud"
            /\ (Falsy(credentials.username) \/ Falsy(credentials.password))
         THEN E_CloudCredentials
  ELSE IF AuthTypeOf(credentials) # "cloud" /\ Falsy(credentials.token)
         THEN E_TokenRequired
  ELSE IF UseCloud(credentials) /\ credentials.allowUnauthorizedCerts
         THEN E_SelfSigned
  ELSE <<>>

\* requestOptions, with body and auth set only in their branches
RequestOptions(credentials, method, path, body, qs, options) ==
  LET base == [method |-> NormalizedMethod(method),
               url |-> BaseUrl(credentials) \o RestPrefix \o path,
               qs |-> qs,
               headers |-> RequestHeaders(credentials, method, options),
               json |-> ~options.plainText,
               skipSslCertificateValidation |->
                 credentials.allowUnauthorizedCerts /\ ~UseCloud(credentials),
               returnFullResponse |-> TRUE,
               ignoreHttpStatusErrors |-> TRUE]
      withBody == IF ~IsReadOperation(method) THEN Put(base, "body", body) ELSE base
  IN IF AuthTypeOf(credentials) = "cloud"
       THEN Put(withBody, "auth",
                [username |-> credentials.username, password |-> credentials.password])
       ELSE withBody

\* openhabApiRequest up to its call of helpers.httpRequest: a thrown
\* configuration error, or the request handed to the transport.
PrepareRequest(credentials, method, path, body, qs, options) ==
  IF ConfigError(credentials) # <<>>
    THEN Throw(ConfigError(credentials))
    ELSE [kind |-> "request",
          requestOptions |-> RequestOptions(credentials, method, path, body, qs, options)]

\* ------------------------------------------------------------ the debug log

\* Header names some caller may pass besides the dispatcher's own.
H_AuthorizationUpper == "AUTHORIZATION"

H_TokenLower == "x-openhab-token"

H_Cookie == "Cookie"

H_SetCookie == "Set-Cookie"

H_ProxyAuthorization == "Proxy-Authorization"

H_Custom == "X-Custom"

\* The characters of a header name.
Spelling(name) ==
  CASE name = H_Accept -> <<"A","c","c","e","p","t">>
    [] name = H_Authorization -> <<"A","u","t","h","o","r","i","z","a","t","i","o","n">>
    [] name = H_AuthorizationUpper ->
         <<"A","U","T","H","O","R","I","Z","A","T","I","O","N">>
    [] name = H_Token -> <<"X","-","O","P","E","N","H","A","B","-","T","O","K","E","N">>
    [] name = H_TokenLower ->
         <<"x","-","o","p","e","n","h","a","b","-","t","o","k","e","n">>
    [] name = H_ContentType -> <<"C","o","n","t","e","n","t","-","T","y","p","e">>
    [] name = H_Cookie -> <<"C","o","o","k","i","e">>
    [] name = H_SetCookie -> <<"S","e","t","-","C","o","o","k","i","e">>
    [] name = H_ProxyAuthorization ->
         <<"P","r","o","x","y","-","A","u","t","h","o","r","i","z","a","t","i","o","n">>
    [] name = H_Custom -> <<"X","-","C","u","s","t","o","m">>

SENSITIVE_DEBUG_HEADERS ==
  {<<"a","u","t","h","o","r","i","z","a","t","i","o","n">>,
   <<"x","-","o","p","e","n","h","a","b","-","t","o","k","e","n">>,
   <<"c","o","o","k","i","e">>,
   <<"s","e","t","-","c","o","o","k","i","e">>,
   <<"p","r","o","x","y","-","a","u","t","h","o","r","i","z","a","t","i","o","n">>}

Redacted == <<"[REDACTED]">>

\* Mutant of sanitizeHeadersForDebug: the key is looked up as it is spelled.
sanitizeHeadersForDebug_CaseSensitive(headers) ==
  [key \in DOMAIN headers |->
     IF Spelling(key) \in SENSITIVE_DEBUG_HEADERS THEN Redacted ELSE headers[key]]

sanitizeHeadersForDebug(headers) ==
  [key \in DOMAIN headers |->
     IF toLowerCase(Spelling(key)) \in SENSITIVE_DEBUG_HEADERS
       THEN Redacted ELSE headers[key]]

\* A query object JSON.stringify throws on (a circular reference, a BigInt).
Unserializable == [t |-> "unserializable"]

\* Whether JSON.stringify(payload) returns.
Stringifies(payload) ==
  IF "query" \in DOMAIN payload THEN payload.query # Unserializable ELSE TRUE

\* logDebug: nothing when disabled; otherwise one console line, the phase
\* with the payload, or the phase alone when the payload cannot be rendered.
\* `log` is the console output so far.
logDebug(log, enabled, phase, payload) ==
  IF ~enabled THEN log
  ELSE IF Stringifies(payload)
         THEN Append(log, [phase |-> phase, payload |-> payload])
  ELSE Append(log, [phase |-> phase])

\* Boolean(options.debug)
DebugEnabled(options) == options.debug

\* requestDebug of a call that built requestOptions
RequestDebug(credentials, method, body, requestOptions) ==
  LET base == [method |-> requestOptions.method,
               url |-> requestOptions.url,
               query |-> requestOptions.qs,
               headers |-> sanitizeHeadersForDebug(requestOptions.headers),
               authType |-> AuthTypeOf(credentials),
               useCloud |-> UseCloud(credentials),
               expectFullResponse |-> TRUE]
  IN IF ~IsReadOperation(method)
       THEN Put(base, "body", formatDebugBody(body))
       ELSE base

\* The console after logDebug(debugEnabled, 'request', requestDebug).
LogRequest(log, c, requestOptions) ==
  logDebug(log, DebugEnabled(c.options), "request",
           RequestDebug(c.credentials, c.method, c.body, requestOptions))

\* The console after the catch block around helpers.httpRequest.
LogTransportError(log, c, requestOptions, message) ==
  logDebug(log, DebugEnabled(c.options), "transportError",
           [method |-> requestOptions.method, url |-> requestOptions.url,
            error |-> message])

\* ------------------------------------------ openhabApiRequest: the response

\* Mutant of StatusOk: the upper limit is off by one, 300 passes as a success.
StatusOk_UpperOffByOne(statusCode) == ~(statusCode < 200 \/ statusCode > 300)

StatusOk(statusCode) == ~(statusCode < 200 \/ statusCode >= 300)

CloudAuthHint ==
  <<" - For admin-level endpoints, set \"openHAB API Token (optional)\" in cloud credentials.">>

\* Mutant of CloudAuthHintFor: the hint goes with every 401.
CloudAuthHintFor_Every401(useCloud, statusCode) ==
  IF statusCode = 401 THEN CloudAuthHint ELSE <<>>

\* const cloudAuthHint = useCloud && statusCode === 401 ? ' - For ...' : ''
CloudAuthHintFor(useCloud, statusCode) ==
  IF useCloud /\ statusCode = 401 THEN CloudAuthHint ELSE <<>>

HttpFailureMessage(credentials, fullResponse) ==
  LET statusCode == fullResponse.statusCode.n
      statusMessage == Coalesce(fullResponse.statusMessage, Str(<<>>)).s
      body == fullResponse.body
      bodyMessage == IF body.t \in {"undefined", "null"} THEN <<>>
                     ELSE trim(formatDebugBody(body))
      cloudAuthHint == CloudAuthHintFor(UseCloud(credentials), statusCode)
      suffix == IF bodyMessage # <<>> THEN <<" - ">> \o bodyMessage ELSE <<>>
  IN trim(<<"openHAB request failed with status", " ">> \o Digits(statusCode)
          \o <<" ">> \o statusMessage)
     \o suffix \o cloudAuthHint

\* openhabApiRequest after helpers.httpRequest resolved with fullResponse
ClassifyResponse(credentials, options, fullResponse) ==
  IF fullResponse.statusCode.t # "number" THEN Throw(E_MissingStatus)
  ELSE IF ~StatusOk(fullResponse.statusCode.n)
         THEN Throw(HttpFailureMessage(credentials, fullResponse))
  ELSE IF options.fullResponse THEN Return(fullResponse)
  ELSE Return(fullResponse.body)

\* The console after helpers.httpRequest resolved with fullResponse: a
\* responseError entry for a missing status code; otherwise a response
\* entry, and a responseError entry with the body for a failing status.
LogResponse(log, c, requestOptions, fullResponse) ==
  LET enabled == DebugEnabled(c.options)
      statusMessage == Coalesce(fullResponse.statusMessage, Str(<<>>)).s
  IN IF fullResponse.statusCode.t # "number"
       THEN logDebug(log, enabled, "responseError",
                     [method |-> requestOptions.method, url |-> requestOptions.url,
                      error |-> E_MissingStatus])
       ELSE LET answered ==
                  logDebug(log, enabled, "response",
                           [method |-> requestOptions.method,
                            url |-> requestOptions.url,
                            statusCode |-> fullResponse.statusCode.n,
                            statusMessage |-> statusMessage])
            IN IF ~StatusOk(fullResponse.statusCode.n)
                 THEN logDebug(answered, enabled, "responseError",
                               [method |-> requestOptions.method,
                                url |-> requestOptions.url,
                                statusCode |-> fullResponse.statusCode.n,
                                statusMessage |-> statusMessage,
                                body |-> formatDebugBody(fullResponse.body)])
                 ELSE answered

\* ------------------------------------------------------ the operation router

S_itemName == <<"K","_","L">>

S_thingUid == <<"z",":","1">>

S_ruleUid == <<"r"," ","1">>

S_command == <<"O","N">>

S_tagFilter == <<"L","i","g","h","t">>

\* encodeURIComponent on the characters the sample identifiers use: letters,
\* digits and - _ . ! ~ * ' ( ) are kept, the others are percent-encoded.
EncodeChar(c) ==
  CASE c = ":" -> <<"%","3","A">>
    [] c = " " -> <<"%","2","0">>
    [] c = "/" -> <<"%","2","F">>
    [] OTHER -> <<c>>

RECURSIVE encodeURIComponent(_)
encodeURIComponent(s) ==
  IF s = <<>> THEN <<>> ELSE EncodeChar(Head(s)) \o encodeURIComponent(Tail(s))

\* Boolean.prototype.toString
BoolToString(b) == IF b THEN <<"t","r","u","e">> ELSE <<"f","a","l","s","e">>

DefaultOptions ==
  [plainText |-> FALSE, fullResponse |-> FALSE, extraHeaders |-> EmptyObject,
   debug |-> FALSE]

\* openhabApiRequestWithDebug: { ...options, debug: debugLogging }
WithDebug(options, debugLogging) == [options EXCEPT !.debug = debugLogging]

Args(method, path, body, qs, options) ==
  [kind |-> "dispatch", method |-> method, path |-> path, body |-> body,
   qs |-> qs, options |-> options]

NoDispatch == [kind |-> "none"]

EmptyBody == [t |-> "object", json |-> <<"{","}">>]

PlainText == [DefaultOptions EXCEPT !.plainText = TRUE]

PlainTextFull == [DefaultOptions EXCEPT !.plainText = TRUE, !.fullResponse = TRUE]

Full == [DefaultOptions EXCEPT !.fullResponse = TRUE]

\* The dispatcher call execute() makes for one row's resource and operation,
\* or NoDispatch when no branch of the router matches.
Route(p) ==
  LET item == encodeURIComponent(p.itemName)
      thing == encodeURIComponent(p.thingUid)
      rule == encodeURIComponent(p.ruleUid)
      res == p.resource
      op == p.operation
  IN CASE res = "item" /\ op = "list" ->
            Args(S_GET, <<"/items">>, EmptyBody,
                 IF p.tagFilter # <<>> THEN "tags" :> p.tagFilter ELSE EmptyObject,
                 DefaultOptions)
       [] res = "item" /\ op = "get" ->
            Args(S_GET, <<"/items/">> \o item, EmptyBody, EmptyObject, DefaultOptions)
       [] res = "item" /\ op = "state" ->
            Args(S_GET, <<"/items/">> \o item \o <<"/state">>, EmptyBody, EmptyObject,
                 PlainText)
       [] res = "item" /\ op = "command" ->
            Args(S_POST, <<"/items/">> \o item, Str(p.command), EmptyObject,
                 PlainTextFull)
       [] res = "item" /\ op = "updateState" ->
            Args(S_PUT, <<"/items/">> \o item \o <<"/state">>, Str(p.command),
                 EmptyObject, PlainTextFull)
       [] res = "item" /\ op = "metadata" ->
            Args(S_GET, <<"/items/">> \o item, EmptyBody, "metadata" :> <<".","*">>,
                 DefaultOptions)
       [] res = "thing" /\ op = "list" ->
            Args(S_GET, <<"/things">>, EmptyBody, EmptyObject, DefaultOptions)
       [] res = "thing" /\ op = "get" ->
            Args(S_GET, <<"/things/">> \o thing, EmptyBody, EmptyObject, DefaultOptions)
       [] res = "thing" /\ op = "status" ->
            Args(S_GET, <<"/things/">> \o thing \o <<"/status">>, EmptyBody,
                 EmptyObject, DefaultOptions)
       [] res = "rule" /\ op = "list" ->
            Args(S_GET, <<"/rules">>, EmptyBody, EmptyObject, DefaultOptions)
       [] res = "rule" /\ op = "run" ->
            Args(S_POST, <<"/rules/">> \o rule \o <<"/runnow">>, EmptyBody,
                 EmptyObject, Full)
       [] res = "rule" /\ op = "toggle" ->
            Args(S_POST, <<"/rules/">> \o rule \o <<"/enable">>,
                 Str(BoolToString(p.ruleEnable)), EmptyObject, PlainTextFull)
       [] res = "system" ->
            Args(S_GET, <<"/systeminfo">>, EmptyBody, EmptyObject, DefaultOptions)
       [] OTHER -> NoDispatch

E_TypeError == <<"Cannot read properties of undefined (reading 'metadata')">>

\* responseData of a row whose dispatcher call returned `value`; reading
\* itemData.metadata of an absent body throws a TypeError.
ShapeResponse(p, value) ==
  LET res == p.resource
      op == p.operation
  IN CASE res = "item" /\ op = "state" ->
            Return([t |-> "object", item |-> p.itemName, state |-> value])
       [] res = "item" /\ op = "command" ->
            Return([t |-> "object", item |-> p.itemName, command |-> p.command,
                    statusCode |-> value.statusCode])
       [] res = "item" /\ op = "updateState" ->
            Return([t |-> "object", item |-> p.itemName, state |-> p.command,
                    statusCode |-> value.statusCode])
       [] res = "item" /\ op = "metadata" ->
            IF value.t \in {"undefined", "null"} THEN Throw(E_TypeError)
            ELSE Return([t |-> "object", item |-> p.itemName,
                         metadata |-> IF value.t = "object"
                                        THEN Coalesce(value.metadata, EmptyBody)
                                        ELSE EmptyBody])
       [] res = "rule" /\ op = "run" ->
            Return([t |-> "object", rule |-> p.ruleUid,
                    statusCode |-> value.statusCode])
       [] res = "rule" /\ op = "toggle" ->
            Return([t |-> "object", rule |-> p.ruleUid, enabled |-> p.ruleEnable,
                    statusCode |-> value.statusCode])
       [] OTHER -> Return(value)

\* Mutant of OutputRows: an array is appended as one row.
OutputRows_NoExpand(responseData) == <<[json |-> responseData]>>

\* The rows execute() appends for responseData: one per element of an
\* array, one for anything else.
OutputRows(responseData) ==
  IF responseData.t = "array"
    THEN [k \in 1..Len(responseData.elems) |-> [json |-> responseData.elems[k]]]
    ELSE <<[json |-> responseData]>>

\* The row execute() appends for a caught error.
ErrorRow(message) == [json |-> [t |-> "object", error |-> message]]

\* ------------------------------------------------------------ sample inputs

S_tok == <<"t","k">>

S_user == <<"u","@","x">>

S_pw == <<"p","w">>

V_Extra == <<"extra">>

HeaderNames == {H_Accept, H_Authorization, H_Token, H_ContentType, H_Custom}

\* options.extraHeaders: none, two harmless ones, or every header at once
ExtraHeaderSamples ==
  {EmptyObject, [n \in {H_Accept, H_Custom} |-> V_Extra],
   [n \in HeaderNames |-> V_Extra]}

\* The credentials the host may hand to a direct dispatcher call.
CredentialSpace ==
  [authType : {Undefined, Str(S_token), Str(S_cloud), Str(<<"C","l","o","u","d">>),
               Str(S_basic), Str(<<"B","a","s","i","c">>)},
   token : {Str(<<>>), Str(S_tok)},
   username : {Str(<<>>), Str(S_user)},
   password : {Str(<<>>), Str(S_pw)},
   cloudToken : {Undefined, Str(<<" ">>), Str(<<" ","c","t">>)},
   baseUrlLocal : {Undefined, Str(<<"/">>), Str(<<"h",":","/","/","o","h","/","/"," ">>)},
   baseUrl : {Undefined},
   allowUnauthorizedCerts : BOOLEAN]

LocalCredentials ==
  [authType |-> Str(S_token), token |-> Str(S_tok), username |-> Str(<<>>),
   password |-> Str(<<>>), cloudToken |-> Undefined, baseUrlLocal |-> Undefined,
   baseUrl |-> Undefined, allowUnauthorizedCerts |-> FALSE]

CloudCredentials ==
  [authType |-> Str(S_cloud), token |-> Str(<<>>), username |-> Str(S_user),
   password |-> Str(S_pw), cloudToken |-> Str(<<" ","c","t">>),
   baseUrlLocal |-> Undefined, baseUrl |-> Undefined,
   allowUnauthorizedCerts |-> FALSE]

\* The credentials of a batch: the two valid ones and one of each kind of
\* configuration error.
BatchCredentials ==
  {LocalCredentials,
   CloudCredentials,
   [LocalCredentials EXCEPT !.token = Str(<<>>)],
   [LocalCredentials EXCEPT !.baseUrlLocal = Str(<<"/">>)],
   [LocalCredentials EXCEPT !.authType = Str(<<"B","a","s","i","c">>)],
   [CloudCredentials EXCEPT !.password = Str(<<>>)],
   [CloudCredentials EXCEPT !.allowUnauthorizedCerts = TRUE]}

Methods == {S_GET, <<"h","e","a","d">>, S_POST, <<"p","u","t">>}

Bodies == {EmptyBody, Str(S_command)}

OptionSpace ==
  [plainText : BOOLEAN, fullResponse : BOOLEAN, extraHeaders : ExtraHeaderSamples,
   debug : {FALSE}]

\* The arguments of a direct dispatcher call.
DispatchCalls ==
  [credentials : CredentialSpace, method : Methods, path : {<<"/items">>},
   body : Bodies, qs : {EmptyObject}, options : OptionSpace]

S_host == <<"h",":","/","/","o","h">>

\* credentials.baseUrlLocal: absent, empty, blank, slashes alone, a bare URL,
\* and URLs with trailing slashes and surrounding white space
LocalUrls ==
  {Undefined, Str(<<>>), Str(<<" ">>), Str(<<"/","/">>), Str(S_host),
   Str(S_host \o <<"/">>), Str(<<" ">> \o S_host \o <<"/","/"," ">>),
   Str(S_host \o <<"/"," ","/">>)}

\* credentials.baseUrl, the field of earlier versions
LegacyUrls == {Undefined, Str(<<"h",":","/","/","l","g","/">>)}

UrlCredentials ==
  {[c EXCEPT !.baseUrlLocal = l, !.baseUrl = b] :
     c \in {LocalCredentials, CloudCredentials}, l \in LocalUrls, b \in LegacyUrls}

\* Direct dispatcher calls that differ in the configured URLs and the path.
UrlCalls ==
  [credentials : UrlCredentials, method : {S_GET, S_POST},
   path : {<<"/items">>, <<"/things/">> \o encodeURIComponent(S_thingUid)},
   body : {EmptyBody}, qs : {EmptyObject}, options : {DefaultOptions}]

ObjectBody == [t |-> "object", json |-> <<"{","a","}">>, metadata |-> Undefined]

MetadataBody ==
  [t |-> "object", json |-> <<"{","m","}">>,
   metadata |-> [t |-> "object", json |-> <<"{","n","s","}">>]]

Element(k) ==
  [t |-> "object", json |-> <<"{">> \o Digits(k) \o <<"}">>, metadata |-> Undefined]

ArrayBody(n) == [t |-> "array", elems |-> [k \in 1..n |-> Element(k)]]

ResponseBodies ==
  {Undefined, Str(<<" ","O","F","F">>), ObjectBody, MetadataBody}
    \cup {ArrayBody(n) : n \in 0..MaxArr}

S_OK == <<"O","K">>

\* What the transport may resolve a direct dispatcher call with.
Responses ==
  [statusCode : {Undefined, Str(<<"2","0","0">>), Num(199), Num(200), Num(299),
                 Num(300), Num(401)},
   statusMessage : {Str(S_OK)},
   body : {Undefined, Str(<<" ","O","F","F">>)}]
    \cup [statusCode : {Num(204), Num(404)}, statusMessage : {Undefined},
          body : {ArrayBody(1)}]

\* What the transport may resolve a row's call with.
BatchResponses ==
  [statusCode : {Num(200)}, statusMessage : {Str(S_OK)}, body : ResponseBodies]
    \cup [statusCode : {Undefined, Num(404)}, statusMessage : {Undefined},
          body : {Undefined, ObjectBody}]
    \cup [statusCode : {Num(401)}, statusMessage : {Str(S_OK)}, body : {Undefined}]

\* A text of n characters.
Fill(n) == [k \in 1..n |-> "x"]

LongObject ==
  [t |-> "object", json |-> <<"{">> \o Fill(DebugBodyLimit) \o <<"}">>,
   metadata |-> Undefined]

\* fullResponse.body of a failed request: absent, null, empty, blank, padded,
\* of exactly the limit, beyond it, a number, objects and an array
FailureBodies ==
  {Undefined, Null, Str(<<>>), Str(<<" ">>), Str(<<" ","O","F","F">>),
   Str(Fill(DebugBodyLimit)), Str(Fill(DebugBodyLimit + 1)),
   Str(<<" ">> \o Fill(DebugBodyLimit)), Num(7), ObjectBody, LongObject,
   ArrayBody(1)}

\* What the transport may resolve a call of FailureCalls with.
FailureResponses ==
  [statusCode : {Undefined, Num(199), Num(200), Num(300), Num(401), Num(404),
                 Num(500)},
   statusMessage : {Undefined, Str(S_OK)},
   body : FailureBodies]

\* Direct dispatcher calls with valid credentials of either mode.
FailureCalls ==
  [credentials : {LocalCredentials, CloudCredentials,
                  [CloudCredentials EXCEPT !.authType = Str(<<"C","l","o","u","d">>)]},
   method : {S_GET}, path : {<<"/items">>}, body : {EmptyBody}, qs : {EmptyObject},
   options : {DefaultOptions, Full}]

\* The value a caller gives the header `name`: one per name, so that a value
\* in the console tells which header it came from.
CallerValue(name) == <<"caller's ", name>>

DebugHeaderNames ==
  {H_AuthorizationUpper, H_TokenLower, H_Cookie, H_SetCookie, H_ProxyAuthorization,
   H_Custom}

\* options.extraHeaders of a logged call: none, every sensitive name in some
\* letter case with a harmless one, or the dispatcher's own names
DebugHeaderSamples ==
  {EmptyObject, [n \in DebugHeaderNames |-> CallerValue(n)],
   [n \in {H_Authorization, H_Token, H_Cookie} |-> CallerValue(n)]}

\* Direct dispatcher calls with valid credentials, with and without debug.
DebugCalls ==
  [credentials : {LocalCredentials, CloudCredentials},
   method : {S_GET, S_POST}, path : {<<"/items">>},
   body : {Str(S_command)},
   qs : {EmptyObject, "tags" :> S_tagFilter, Unserializable},
   options : [plainText : {FALSE}, fullResponse : {FALSE},
              extraHeaders : DebugHeaderSamples, debug : BOOLEAN]]

E_Transport == <<"connect ECONNREFUSED">>

E_Parameter == <<"Could not get parameter">>

Catalogue ==
  {<<"item", "list">>, <<"item", "get">>, <<"item", "state">>, <<"item", "command">>,
   <<"item", "updateState">>, <<"item", "metadata">>, <<"thing", "list">>,
   <<"thing", "get">>, <<"thing", "status">>, <<"rule", "list">>, <<"rule", "run">>,
   <<"rule", "toggle">>, <<"system", "info">>}

\* A resource and operation no branch of the router matches.
Unmatched == {<<"item", "reset">>}

RowParameters(ro) ==
  [resource |-> ro[1], operation |-> ro[2], itemName |-> S_itemName,
   thingUid |-> S_thingUid, ruleUid |-> S_ruleUid, command |-> S_command,
   ruleEnable |-> FALSE, tagFilter |-> <<>>, debugLogging |-> FALSE]

\* The parameters getNodeParameter may resolve for one row.
RowInputs ==
  {RowParameters(ro) : ro \in Catalogue \cup Unmatched}
    \cup {[RowParameters(<<"item", "list">>) EXCEPT !.tagFilter = S_tagFilter],
          [RowParameters(<<"rule", "toggle">>) EXCEPT !.ruleEnable = TRUE]}

\* -------------------------------------------------------------------- state

NoRow == [resource |-> "none"]

NoCall == [kind |-> "none"]

NoRequest == EmptyObject

NoResponse == [statusCode |-> Undefined, statusMessage |-> Undefined, body |-> Undefined,
               none |-> TRUE]

NoOutcome == [kind |-> "none"]

VARIABLES
  nItems,          \* execute: items.length
  continueOnFail,  \* execute: this.continueOnFail()
  credentials,     \* execute: what this.getCredentials resolves to
  pc,              \* execute: "loop", "await", "returned", "thrown" ("off": no batch)
  i,               \* execute: the loop index
  row,             \* execute: the parameters of row i while its call is in flight
  returnData,      \* execute: the output rows collected so far
  origin,          \* for each output row, the input row that appended it
  rowLog,          \* for each finished row, what became of it
  thrown,          \* execute: the error it threw, <<>> if none
  result,          \* execute: the rows it returned, as <<rows>>, <<>> if none
  inflight,        \* rows whose transport call has not resolved yet
  transportLog,    \* one entry per helpers.httpRequest invocation: the row (0: direct)
  dpc,             \* dispatcher: "idle", "called", "await", "returned", "threw"
  call,            \* dispatcher: the arguments of the current call
  request,         \* dispatcher: the requestOptions handed to the transport
  response,        \* dispatcher: what the transport resolved with
  outcome,         \* dispatcher: what the call returned or threw
  log              \* the console: one entry per line logDebug wrote

vars ==
  <<nItems, continueOnFail, credentials, pc, i, row, returnData, origin, rowLog,
    thrown, result, inflight, transportLog, dpc, call, request, response, outcome,
    log>>

batchVars ==
  <<nItems, continueOnFail, credentials, pc, i, row, returnData, origin, rowLog,
    thrown, result, inflight>>

dispatchVars == <<dpc, call, request, response, outcome>>

\* ------------------------------------------------- a direct dispatcher call

BatchOff ==
  /\ nItems = 0
  /\ continueOnFail = FALSE
  /\ credentials = LocalCredentials
  /\ pc = "off"
  /\ i = 0
  /\ row = NoRow
  /\ returnData = <<>>
  /\ origin = <<>>
  /\ rowLog = <<>>
  /\ thrown = <<>>
  /\ result = <<>>
  /\ inflight = {}

DispatchInit ==
  /\ BatchOff
  /\ transportLog = <<>>
  /\ dpc = "called"
  /\ call \in DispatchCalls
  /\ request = NoRequest
  /\ response = NoResponse
  /\ outcome = NoOutcome
  /\ log = <<>>

\* What openhabApiRequest does with its arguments before it awaits the transport.
Prepared(c) ==
  PrepareRequest(c.credentials, c.method, c.path, c.body, c.qs, c.options)

\* openhabApiRequest from its entry to `await this.helpers.httpRequest(...)`,
\* or to the configuration error it throws before.
DispatchPrepare ==
  /\ dpc = "called"
  /\ IF Prepared(call).kind = "throw"
       THEN /\ dpc' = "threw"
            /\ outcome' = Prepared(call)
            /\ UNCHANGED <<request, transportLog, log>>
       ELSE /\ dpc' = "await"
            /\ request' = Prepared(call).requestOptions
            /\ log' = LogRequest(log, call, request')
            /\ transportLog' = Append(transportLog, 0)
            /\ UNCHANGED outcome
  /\ UNCHANGED <<call, response, batchVars>>

\* helpers.httpRequest resolves with one of `responses`: the rest of
\* openhabApiRequest.
Resolve(responses) ==
  /\ dpc = "await"
  /\ \E fullResponse \in responses :
       /\ response' = fullResponse
       /\ log' = LogResponse(log, call, request, fullResponse)
       /\ outcome' = ClassifyResponse(call.credentials, call.options, fullResponse)
       /\ dpc' = IF outcome'.kind = "throw" THEN "threw" ELSE "returned"
  /\ UNCHANGED <<call, request, transportLog, batchVars>>

\* helpers.httpRequest rejects: the catch block rethrows the transport's error.
DispatchReject ==
  /\ dpc = "await"
  /\ log' = LogTransportError(log, call, request, E_Transport)
  /\ outcome' = Throw(E_Transport)
  /\ dpc' = "threw"
  /\ UNCHANGED <<call, request, response, transportLog, batchVars>>

DispatchResolve == Resolve(Responses)

DispatchNext == DispatchPrepare \/ DispatchResolve \/ DispatchReject

DispatchSpec == DispatchInit /\ [][DispatchNext]_vars

\* A direct dispatcher call drawn from UrlCalls.
UrlInit ==
  /\ BatchOff
  /\ transportLog = <<>>
  /\ dpc = "called"
  /\ call \in UrlCalls
  /\ request = NoRequest
  /\ response = NoResponse
  /\ outcome = NoOutcome
  /\ log = <<>>

UrlSpec == UrlInit /\ [][DispatchNext]_vars

\* A direct dispatcher call drawn from DebugCalls.
DebugInit ==
  /\ BatchOff
  /\ transportLog = <<>>
  /\ dpc = "called"
  /\ call \in DebugCalls
  /\ request = NoRequest
  /\ response = NoResponse
  /\ outcome = NoOutcome
  /\ log = <<>>

DebugSpec == DebugInit /\ [][DispatchNext]_vars

\* A direct dispatcher call drawn from FailureCalls, answered from
\* FailureResponses.
FailureInit ==
  /\ BatchOff
  /\ transportLog = <<>>
  /\ dpc = "called"
  /\ call \in FailureCalls
  /\ request = NoRequest
  /\ response = NoResponse
  /\ outcome = NoOutcome
  /\ log = <<>>

FailureResolve == Resolve(FailureResponses)

FailureNext == DispatchPrepare \/ FailureResolve \/ DispatchReject

FailureSpec == FailureInit /\ [][FailureNext]_vars

\* ---------------------------------------------------------------- execute

Init ==
  /\ nItems \in 0..MaxItems
  /\ continueOnFail \in BOOLEAN
  /\ credentials \in BatchCredentials
  /\ pc = "loop"
  /\ i = 0
  /\ row = NoRow
  /\ returnData = <<>>
  /\ origin = <<>>
  /\ rowLog = <<>>
  /\ thrown = <<>>
  /\ result = <<>>
  /\ inflight = {}
  /\ transportLog = <<>>
  /\ dpc = "idle"
  /\ call = NoCall
  /\ request = NoRequest
  /\ response = NoResponse
  /\ outcome = NoOutcome
  /\ log = <<>>

\* What is recorded of a finished row: whether it reached the dispatcher,
\* and either its responseData or the message of the error it failed with.
Succeeded(r, dispatched, responseData) ==
  [row |-> r, failed |-> FALSE, dispatched |-> dispatched,
   responseData |-> responseData, message |-> <<>>]

Failed(r, dispatched, message) ==
  [row |-> r, failed |-> TRUE, dispatched |-> dispatched,
   responseData |-> Undefined, message |-> message]

\* for (...; i++)
NextIndex(r) == r + 1

\* Mutant of PcAfterSend: the call is not awaited and the loop runs on.
PcAfterSend_NoAwait == "loop"

\* `await`: execute() is suspended until the transport settles the call.
PcAfterSend == "await"

\* The end of one iteration: `rows` are appended and the loop goes on.
RowDone(r, rows, entry) ==
  /\ returnData' = returnData \o rows
  /\ origin' = origin \o [k \in 1..Len(rows) |-> r]
  /\ rowLog' = Append(rowLog, entry)
  /\ i' = NextIndex(r)
  /\ pc' = "loop"
  /\ row' = NoRow
  /\ call' = NoCall
  /\ request' = NoRequest
  /\ inflight' = inflight \ {r}
  /\ UNCHANGED <<thrown, result>>

\* `throw error` out of execute(): returnData is dropped with the frame.
Rethrow(r, message, entry) ==
  /\ pc' = "thrown"
  /\ thrown' = message
  /\ rowLog' = Append(rowLog, entry)
  /\ row' = NoRow
  /\ call' = NoCall
  /\ request' = NoRequest
  /\ inflight' = inflight \ {r}
  /\ UNCHANGED <<returnData, origin, i, result>>

\* Mutant of Catch: the error is rethrown whatever continueOnFail() says.
Catch_AlwaysRethrow(r, dispatched, message) ==
  Rethrow(r, message, Failed(r, dispatched, message))

\* Mutant of Catch: the error is recorded whatever continueOnFail() says.
Catch_AlwaysContinue(r, dispatched, message) ==
  RowDone(r, <<ErrorRow(message)>>, Failed(r, dispatched, message))

\* The catch block of the loop body.
Catch(r, dispatched, message) ==
  IF continueOnFail
    THEN RowDone(r, <<ErrorRow(message)>>, Failed(r, dispatched, message))
    ELSE Rethrow(r, message, Failed(r, dispatched, message))

\* A getNodeParameter call of row i throws before any dispatcher call.
ParameterFailure ==
  /\ pc = "loop"
  /\ i < nItems
  /\ Catch(i, FALSE, E_Parameter)
  /\ UNCHANGED <<nItems, continueOnFail, credentials, transportLog, dpc, response,
                 outcome, log>>

\* One iteration from the loop head to the first await: the parameters are
\* read, the router picks the call, and the dispatcher either throws a
\* configuration error or hands its request to the transport.
ProcessRow ==
  /\ pc = "loop"
  /\ i < nItems
  /\ \E p \in RowInputs :
       LET a == Route(p)
           options == WithDebug(a.options, p.debugLogging)
           prep == PrepareRequest(credentials, a.method, a.path, a.body, a.qs, options)
       IN IF a.kind = "none"
            THEN /\ RowDone(i, OutputRows(Undefined), Succeeded(i, FALSE, Undefined))
                 /\ UNCHANGED <<transportLog, log>>
            ELSE IF prep.kind = "throw"
                   THEN /\ Catch(i, TRUE, prep.message)
                        /\ UNCHANGED <<transportLog, log>>
                   ELSE /\ row' = p
                        /\ call' = [credentials |-> credentials, method |-> a.method,
                                    path |-> a.path, body |-> a.body, qs |-> a.qs,
                                    options |-> options]
                        /\ request' = prep.requestOptions
                        /\ log' = LogRequest(log, call', request')
                        /\ transportLog' = Append(transportLog, i)
                        /\ inflight' = inflight \cup {i}
                        /\ pc' = PcAfterSend
                        /\ UNCHANGED <<i, returnData, origin, rowLog, thrown, result>>
  /\ UNCHANGED <<nItems, continueOnFail, credentials, dpc, response, outcome>>

\* helpers.httpRequest resolves: the dispatcher classifies the response, the
\* router shapes it, and the rows are appended, or the error is caught.
HttpResolve ==
  /\ \E r \in inflight, fullResponse \in BatchResponses :
       LET out == ClassifyResponse(call.credentials, call.options, fullResponse)
           shaped == ShapeResponse(row, out.value)
       IN /\ log' = LogResponse(log, call, request, fullResponse)
          /\ IF out.kind = "throw" THEN Catch(r, TRUE, out.message)
             ELSE IF shaped.kind = "throw" THEN Catch(r, TRUE, shaped.message)
             ELSE RowDone(r, OutputRows(shaped.value), Succeeded(r, TRUE, shaped.value))
  /\ UNCHANGED <<nItems, continueOnFail, credentials, transportLog, dpc, response,
                 outcome>>

\* Mutant of OnTransportError: the request is sent again.
OnTransportError_Retry(r, message) ==
  /\ transportLog' = Append(transportLog, r)
  /\ UNCHANGED <<batchVars, call, request>>

\* The dispatcher's catch around helpers.httpRequest rethrows the transport's
\* error, which the loop body's catch block receives.
OnTransportError(r, message) ==
  /\ Catch(r, TRUE, message)
  /\ UNCHANGED transportLog

\* helpers.httpRequest rejects.
HttpReject ==
  /\ \E r \in inflight : OnTransportError(r, E_Transport)
  /\ log' = LogTransportError(log, call, request, E_Transport)
  /\ UNCHANGED <<nItems, continueOnFail, credentials, dpc, response, outcome>>

\* i < items.length is false: return [returnData]
ReturnRows ==
  /\ pc = "loop"
  /\ ~(i < nItems)
  /\ pc' = "returned"
  /\ result' = <<returnData>>
  /\ UNCHANGED <<nItems, continueOnFail, credentials, i, row, returnData, origin,
                 rowLog, thrown, inflight, transportLog, dispatchVars, log>>

Next == ParameterFailure \/ ProcessRow \/ HttpResolve \/ HttpReject \/ ReturnRows

Spec == Init /\ [][Next]_vars

\* Every call the transport was handed settles, and execute() runs on when
\* it can.
FairSpec == Spec /\ WF_vars(Next)

\* ------------------------------------------------- claims on the dispatcher

Sent == request # NoRequest

Answered == response # NoResponse

NumericIn2xx(statusCode) ==
  IF statusCode.t = "number" THEN statusCode.n >= 200 /\ statusCode.n < 300 ELSE FALSE

\* C1: a dispatcher call returns a success value (the body, or the whole
\* envelope) only when the transport answered with a status code that is a
\* number in [200, 300); an answer whose status code is missing, not a number,
\* below 200 or at least 300 ends the call with a thrown error.
C1_SuccessOnly2xx ==
  /\ outcome.kind = "return" =>
       /\ Answered
       /\ NumericIn2xx(response.statusCode)
       /\ outcome.value = IF call.options.fullResponse THEN response ELSE response.body
  /\ (Answered /\ ~NumericIn2xx(response.statusCode)) =>
       /\ dpc = "threw"
       /\ outcome.kind = "throw"

C1_Witness ==
  /\ dpc = "returned"
  /\ response.statusCode = Num(299)
  /\ outcome.kind = "return"
  /\ ~call.options.fullResponse

BasicSelected(c) == c.authType \in {Str(S_basic), Str(<<"B","a","s","i","c">>)}

CloudSelected(c) == c.authType \in {Str(S_cloud), Str(<<"C","l","o","u","d">>)}

LocalSelected(c) == c.authType \in {Undefined, Str(S_token)}

\* The configurations C2 lists.
ListedMisconfiguration(c) ==
  \/ BasicSelected(c)
  \/ LocalSelected(c) /\ c.token = Str(<<>>)
  \/ CloudSelected(c) /\ (c.username = Str(<<>>) \/ c.password = Str(<<>>))
  \/ CloudSelected(c) /\ c.allowUnauthorizedCerts

\* C2: a call whose credentials select the legacy basic mode, local mode
\* with an empty token, cloud mode with an empty username or password, or
\* cloud mode with self-signed certificates allowed throws a configuration
\* error, and the transport is not invoked in that call; no configuration
\* error is ever thrown after a transport invocation.
C2_ConfigErrorBeforeNetwork ==
  /\ (dpc # "called" /\ ListedMisconfiguration(call.credentials)) =>
       /\ dpc = "threw"
       /\ outcome.kind = "throw"
       /\ outcome.message \in ConfigErrors
       /\ transportLog = <<>>
       /\ ~Sent
  /\ (outcome.kind = "throw" /\ outcome.message \in ConfigErrors) =>
       transportLog = <<>>

C2_Witness ==
  /\ dpc = "threw"
  /\ CloudSelected(call.credentials)
  /\ call.credentials.allowUnauthorizedCerts
  /\ call.credentials.username # Str(<<>>)
  /\ call.credentials.password # Str(<<>>)
  /\ outcome.message = E_SelfSigned
  /\ transportLog = <<>>

ReadOnlyVerb(method) == toUpperCase(method) \in {S_GET, S_HEAD}

\* C8 as stated: a read-only call's request has no body and no content-type
\* header; any other call's request has the body argument and a content-type.
C8_Original ==
  Sent =>
    IF ReadOnlyVerb(call.method)
      THEN /\ "body" \notin DOMAIN request
           /\ H_ContentType \notin DOMAIN request.headers
      ELSE /\ "body" \in DOMAIN request
           /\ request.body = call.body
           /\ H_ContentType \in DOMAIN request.headers

\* C8, amended: for a read-only verb (GET or HEAD in any letter case) the
\* request has no body, whatever body was passed, and the dispatcher sets no
\* content-type: the request has a Content-Type header only when extraHeaders
\* holds one, with that value. For any other verb the body argument is
\* attached and Content-Type is text/plain or application/json by plainText.
C8_ReadOnlySendsNoBody ==
  Sent =>
    IF ReadOnlyVerb(call.method)
      THEN /\ "body" \notin DOMAIN request
           /\ (H_ContentType \in DOMAIN request.headers
                 <=> H_ContentType \in DOMAIN call.options.extraHeaders)
           /\ H_ContentType \in DOMAIN request.headers =>
                request.headers[H_ContentType] = call.options.extraHeaders[H_ContentType]
      ELSE /\ "body" \in DOMAIN request
           /\ request.body = call.body
           /\ H_ContentType \in DOMAIN request.headers
           /\ request.headers[H_ContentType] =
                IF call.options.plainText THEN V_TextPlain ELSE V_Json

C8_Witness ==
  /\ Sent
  /\ call.method = <<"h","e","a","d">>
  /\ call.body = Str(S_command)
  /\ "body" \notin DOMAIN request
  /\ H_ContentType \notin DOMAIN request.headers

NonEmptyString(v) == IF v.t = "string" THEN v.s # <<>> ELSE FALSE

\* C9 as stated.
C9_Original ==
  Sent =>
    LET c == call.credentials
        h == request.headers
    IN IF CloudSelected(c)
         THEN /\ "auth" \in DOMAIN request
              /\ request.auth = [username |-> c.username, password |-> c.password]
              /\ H_Authorization \notin DOMAIN h
              /\ (H_Token \in DOMAIN h <=> NonEmptyString(c.cloudToken))
         ELSE /\ "auth" \notin DOMAIN request
              /\ H_Authorization \in DOMAIN h
              /\ h[H_Authorization] = <<"Bearer ">> \o c.token.s
              /\ H_Token \in DOMAIN h
              /\ h[H_Token] = c.token.s

HasText(v) == IF v.t = "string" THEN trim(v.s) # <<>> ELSE FALSE

\* C9, amended: in local mode the request carries the bearer Authorization
\* header and X-OPENHAB-TOKEN, both from the local token, and no basic-auth
\* credentials. In cloud mode it carries the basic-auth credentials; the
\* dispatcher adds no Authorization header (one is present only when
\* extraHeaders holds it, with that value); X-OPENHAB-TOKEN is the trimmed
\* cloud token when that is non-empty after trimming, and otherwise is present
\* only when extraHeaders holds it, with that value. The local token is never
\* sent in cloud mode.
C9_OneAuthScheme ==
  Sent =>
    LET c == call.credentials
        h == request.headers
        x == call.options.extraHeaders
    IN IF CloudSelected(c)
         THEN /\ "auth" \in DOMAIN request
              /\ request.auth = [username |-> c.username, password |-> c.password]
              /\ (H_Authorization \in DOMAIN h <=> H_Authorization \in DOMAIN x)
              /\ H_Authorization \in DOMAIN h => h[H_Authorization] = x[H_Authorization]
              /\ IF HasText(c.cloudToken)
                   THEN H_Token \in DOMAIN h /\ h[H_Token] = trim(c.cloudToken.s)
                   ELSE /\ (H_Token \in DOMAIN h <=> H_Token \in DOMAIN x)
                        /\ H_Token \in DOMAIN h => h[H_Token] = x[H_Token]
         ELSE /\ "auth" \notin DOMAIN request
              /\ H_Authorization \in DOMAIN h
              /\ h[H_Authorization] = <<"Bearer ">> \o c.token.s
              /\ H_Token \in DOMAIN h
              /\ h[H_Token] = c.token.s

C9_Witness ==
  /\ Sent
  /\ CloudSelected(call.credentials)
  /\ call.credentials.token = Str(S_tok)
  /\ call.credentials.cloudToken = Str(<<" ","c","t">>)
  /\ call.options.extraHeaders = EmptyObject
  /\ request.headers[H_Token] = <<"c","t">>
  /\ H_Authorization \notin DOMAIN request.headers
  /\ "auth" \in DOMAIN request

\* C10 as stated: every header of extraHeaders reaches the request with the
\* value extraHeaders gives it.
C10_Original ==
  Sent =>
    \A n \in DOMAIN call.options.extraHeaders :
      /\ n \in DOMAIN request.headers
      /\ request.headers[n] = call.options.extraHeaders[n]

\* The headers the dispatcher assigns after it merged extraHeaders.
AssignedLater(c, n) ==
  \/ n \in {H_Authorization, H_Token} /\ ~CloudSelected(c.credentials)
  \/ n = H_Token /\ CloudSelected(c.credentials) /\ HasText(c.credentials.cloudToken)
  \/ n = H_ContentType /\ ~ReadOnlyVerb(c.method)

\* C10, amended: extraHeaders are merged right after the Accept default, so
\* they override Accept and add any other header; a header the dispatcher
\* assigns afterwards keeps the dispatcher's value, not the caller's:
\* Authorization and X-OPENHAB-TOKEN in local mode, X-OPENHAB-TOKEN in cloud
\* mode with a cloud token, Content-Type for a verb other than GET and HEAD.
C10_ExtraHeadersOverrideAccept ==
  Sent =>
    \A n \in DOMAIN call.options.extraHeaders :
      /\ n \in DOMAIN request.headers
      /\ IF AssignedLater(call, n)
           THEN request.headers[n] =
                  CASE n = H_Authorization -> <<"Bearer ">> \o call.credentials.token.s
                    [] n = H_Token ->
                         IF CloudSelected(call.credentials)
                           THEN trim(call.credentials.cloudToken.s)
                           ELSE call.credentials.token.s
                    [] OTHER -> IF call.options.plainText THEN V_TextPlain ELSE V_Json
           ELSE request.headers[n] = call.options.extraHeaders[n]

C10_Witness ==
  /\ Sent
  /\ call.options.extraHeaders = [n \in HeaderNames |-> V_Extra]
  /\ ~CloudSelected(call.credentials)
  /\ call.method = S_POST
  /\ request.headers[H_Accept] = V_Extra
  /\ request.headers[H_Custom] = V_Extra
  /\ request.headers[H_Authorization] = <<"Bearer ">> \o S_tok

\* The value the dispatcher reads as the configured local URL: baseUrlLocal,
\* or the older baseUrl field when that is absent, or the empty string.
ConfiguredUrl(c) ==
  IF c.baseUrlLocal.t = "string" THEN c.baseUrlLocal.s
  ELSE IF c.baseUrl.t = "string" THEN c.baseUrl.s
  ELSE <<>>

OnlySlashes(s) == \A k \in 1..Len(s) : s[k] = "/"

OnlyWhiteSpace(s) == \A k \in 1..Len(s) : s[k] \in {" ", "\t", "\n"}

\* b is s without its trailing run of slashes
IsSlashStripOf(b, s) ==
  /\ Len(b) <= Len(s)
  /\ SubSeq(s, 1, Len(b)) = b
  /\ OnlySlashes(SubSeq(s, Len(b) + 1, Len(s)))
  /\ b # <<>> => b[Len(b)] # "/"

\* t is s without its leading and trailing white space
IsTrimOf(t, s) ==
  \E lead \in 0..Len(s) :
    /\ lead + Len(t) <= Len(s)
    /\ OnlyWhiteSpace(SubSeq(s, 1, lead))
    /\ SubSeq(s, lead + 1, lead + Len(t)) = t
    /\ OnlyWhiteSpace(SubSeq(s, lead + Len(t) + 1, Len(s)))
    /\ t # <<>> => ~OnlyWhiteSpace(<<t[1]>>) /\ ~OnlyWhiteSpace(<<t[Len(t)]>>)

\* The request URL is base, then /rest, then the path argument.
UrlIs(base) == request.url = base \o <<"/rest">> \o call.path

\* C11 as stated: in local mode the base endpoint is the configured URL
\* without its trailing slashes, or the localhost default when the
\* configured URL is empty.
C11_Original ==
  Sent =>
    IF CloudSelected(call.credentials)
      THEN UrlIs(<<"https://home.myopenhab.org">>)
      ELSE IF ConfiguredUrl(call.credentials) = <<>>
             THEN UrlIs(<<"http://localhost:8080">>)
             ELSE \E b \in {SubSeq(ConfiguredUrl(call.credentials), 1, n) :
                              n \in 0..Len(ConfiguredUrl(call.credentials))} :
                    /\ IsSlashStripOf(b, ConfiguredUrl(call.credentials))
                    /\ UrlIs(b)

\* The prefixes and infixes of s, the candidates for its trimmed and
\* stripped forms.
Infixes(s) == {SubSeq(s, j, k) : j \in 1..Len(s) + 1, k \in 0..Len(s)}

\* C11, amended: in cloud mode the request URL is the fixed relay address
\* https://home.myopenhab.org, then /rest, then the path, whatever the
\* configured local URL holds. In local mode the configured local URL is
\* first trimmed of surrounding white space: when nothing is left the base
\* endpoint is http://localhost:8080; otherwise it is the trimmed URL without
\* its trailing slashes, and when that leaves nothing (the URL was slashes
\* alone) the call throws "Base URL is missing" and sends no request.
C11_BaseEndpoint ==
  LET c == call.credentials
      url == ConfiguredUrl(c)
  IN /\ Sent =>
          IF CloudSelected(c)
            THEN UrlIs(<<"https://home.myopenhab.org">>)
            ELSE \E t \in Infixes(url) :
                   /\ IsTrimOf(t, url)
                   /\ IF t = <<>>
                        THEN UrlIs(<<"http://localhost:8080">>)
                        ELSE \E b \in Infixes(t) :
                               /\ IsSlashStripOf(b, t)
                               /\ b # <<>>
                               /\ UrlIs(b)
     /\ (dpc # "called" /\ ~CloudSelected(c) /\ url # <<>> /\ ~OnlyWhiteSpace(url)
           /\ \E t \in Infixes(url) : IsTrimOf(t, url) /\ OnlySlashes(t)) =>
          /\ outcome = Throw(E_BaseUrlMissing)
          /\ ~Sent
          /\ transportLog = <<>>

C11_Witness ==
  /\ Sent
  /\ CloudSelected(call.credentials)
  /\ call.credentials.baseUrlLocal = Str(<<" ">> \o S_host \o <<"/","/"," ">>)
  /\ call.credentials.baseUrl # Undefined
  /\ request.url =
       <<"https://home.myopenhab.org", "/rest", "/things/", "z", "%", "3", "A", "1">>

\* The transport answered with a numeric status outside [200, 300).
HttpFailure ==
  /\ Answered
  /\ response.statusCode.t = "number"
  /\ ~(response.statusCode.n >= 200 /\ response.statusCode.n < 300)

\* The text of a response body: a string itself, the JSON rendering of an
\* object or an array, the decimal rendering of a number, none otherwise.
BodyText(body) ==
  CASE body.t = "string" -> body.s
    [] body.t \in {"object", "array"} -> JsonStringify(body)
    [] body.t = "number" -> Digits(body.n)
    [] OTHER -> <<>>

\* The first 300 characters, with the ellipsis marker when some were cut.
Cut(s) == IF Len(s) > 300 THEN SubSeq(s, 1, 300) \o <<".", ".", ".">> ELSE s

FirstText(s) ==
  CHOOSE a \in 1..Len(s) + 1 :
    /\ a <= Len(s) => ~OnlyWhiteSpace(<<s[a]>>)
    /\ OnlyWhiteSpace(SubSeq(s, 1, a - 1))

LastText(s) ==
  CHOOSE b \in 0..Len(s) :
    /\ b >= 1 => ~OnlyWhiteSpace(<<s[b]>>)
    /\ OnlyWhiteSpace(SubSeq(s, b + 1, Len(s)))

\* s without its leading and trailing white space
Trimmed(s) == SubSeq(s, FirstText(s), LastText(s))

\* "openHAB request failed with status <code>[ <status message>]"
FailureHead ==
  <<"openHAB request failed with status", " ">> \o Digits(response.statusCode.n)
    \o (IF response.statusMessage.t = "string" /\ response.statusMessage.s # <<>>
          THEN <<" ">> \o response.statusMessage.s ELSE <<>>)

Contains(s, part) ==
  \E k \in 0..Len(s) - Len(part) : SubSeq(s, k + 1, k + Len(part)) = part

HintText ==
  <<" - For admin-level endpoints, set \"openHAB API Token (optional)\" in cloud credentials.">>

\* The message is `text`, possibly followed by the token hint.
MessageIs(text) ==
  /\ outcome.kind = "throw"
  /\ outcome.message \in {text, text \o HintText}

\* C12 as stated: the message holds the status code and, when the body has
\* text, " - " and the body cut to 300 characters (whole when it is no longer
\* than that); a body without text adds nothing.
C12_Original ==
  HttpFailure =>
    /\ outcome.kind = "throw"
    /\ Contains(outcome.message, Digits(response.statusCode.n))
    /\ IF OnlyWhiteSpace(BodyText(response.body))
         THEN MessageIs(FailureHead)
         ELSE MessageIs(FailureHead \o <<" - ">> \o Cut(BodyText(response.body)))

\* C12, amended: for a response with a status outside [200, 300) the thrown
\* message is "openHAB request failed with status", the status code and the
\* status message if any; then, when the body is present, " - " and the
\* body's text (a string itself, the JSON rendering of an object or array)
\* cut to its first 300 characters with "..." appended if it was longer, and
\* after that cut trimmed of leading and trailing white space. A body that
\* is absent, null, or of which nothing is left after trimming adds nothing.
C12_FailureMessage ==
  HttpFailure =>
    /\ outcome.kind = "throw"
    /\ dpc = "threw"
    /\ Contains(outcome.message, Digits(response.statusCode.n))
    /\ IF Trimmed(Cut(BodyText(response.body))) = <<>>
         THEN MessageIs(FailureHead)
         ELSE MessageIs(FailureHead \o <<" - ">>
                          \o Trimmed(Cut(BodyText(response.body))))

C12_Witness ==
  /\ dpc = "threw"
  /\ response.statusCode = Num(404)
  /\ response.statusMessage = Undefined
  /\ response.body = Str(<<" ">> \o Fill(300))
  /\ outcome.message =
       <<"openHAB request failed with status", " ", "4", "0", "4", " - ">>
         \o Fill(299) \o <<".", ".", ".">>

EndsWith(s, part) ==
  /\ Len(s) >= Len(part)
  /\ SubSeq(s, Len(s) - Len(part) + 1, Len(s)) = part

\* C13: the message of an HTTP failure ends with the hint about the optional
\* token when the call is in cloud mode and the status is 401; in local mode
\* with status 401, in cloud mode with any other failing status, and in any
\* error that is not an HTTP failure, the message does not contain the hint.
C13_CloudHintOnly401 ==
  /\ HttpFailure =>
       /\ outcome.kind = "throw"
       /\ IF CloudSelected(call.credentials) /\ response.statusCode.n = 401
            THEN EndsWith(outcome.message, HintText)
            ELSE ~Contains(outcome.message, HintText)
  /\ (outcome.kind = "throw" /\ ~HttpFailure) => ~Contains(outcome.message, HintText)

C13_Witness ==
  /\ dpc = "threw"
  /\ call.credentials.authType = Str(<<"C","l","o","u","d">>)
  /\ response.statusCode = Num(401)
  /\ response.body = Str(<<" ","O","F","F">>)
  /\ outcome.message =
       <<"openHAB request failed with status", " ", "4", "0", "1", " ", "O", "K",
         " - ", "O", "F", "F">> \o HintText

\* The header names C14 lists, in lower case.
ListedNames ==
  {<<"a","u","t","h","o","r","i","z","a","t","i","o","n">>,
   <<"x","-","o","p","e","n","h","a","b","-","t","o","k","e","n">>,
   <<"c","o","o","k","i","e">>,
   <<"s","e","t","-","c","o","o","k","i","e">>,
   <<"p","r","o","x","y","-","a","u","t","h","o","r","i","z","a","t","i","o","n">>}

SameLetter(a, b) ==
  \/ a = b
  \/ \E k \in 1..26 : {a, b} = {UpperAlpha[k], LowerAlpha[k]}

\* The header name matches a listed one in any letter case.
Listed(name) ==
  \E l \in ListedNames :
    /\ Len(l) = Len(Spelling(name))
    /\ \A k \in 1..Len(l) : SameLetter(l[k], Spelling(name)[k])

\* Every text a console entry shows: its strings, the values of its headers
\* and of its query.
Texts(entry) ==
  IF "payload" \notin DOMAIN entry THEN {}
  ELSE LET P == entry.payload
       IN {P[f] : f \in DOMAIN P \cap {"method", "url", "body", "error", "statusMessage"}}
            \cup (IF "headers" \in DOMAIN P
                    THEN {P.headers[n] : n \in DOMAIN P.headers} ELSE {})
            \cup (IF "query" \in DOMAIN P
                    THEN {P.query[n] : n \in DOMAIN P.query} ELSE {})

\* The values of the request's headers with a listed name.
SecretValues ==
  IF Sent THEN {request.headers[n] : n \in {m \in DOMAIN request.headers : Listed(m)}}
  ELSE {}

\* C14: with debug enabled, no console entry written during the call
\* contains the value of a request header named authorization,
\* x-openhab-token, cookie, set-cookie or proxy-authorization in any letter
\* case: the request entry lists every header of the request by name, each
\* listed one with '[REDACTED]' as its value and every other with its own
\* value, and no entry shows a listed header's value anywhere else; with debug
\* disabled nothing is written at all.
C14_DebugRedaction ==
  /\ ~call.options.debug => log = <<>>
  /\ \A k \in 1..Len(log) :
       /\ \A v \in SecretValues, t \in Texts(log[k]) : v # <<>> => ~Contains(t, v)
       /\ ("payload" \in DOMAIN log[k] /\ log[k].phase = "request") =>
            /\ DOMAIN log[k].payload.headers = DOMAIN request.headers
            /\ \A n \in DOMAIN request.headers :
                 log[k].payload.headers[n] =
                   IF Listed(n) THEN <<"[REDACTED]">> ELSE request.headers[n]
  /\ (call.options.debug /\ Sent) =>
       /\ log # <<>>
       /\ log[1].phase = "request"
       /\ call.qs # Unserializable => "payload" \in DOMAIN log[1]

C14_Witness ==
  /\ dpc = "threw"
  /\ call.options.debug
  /\ ~CloudSelected(call.credentials)
  /\ call.method = S_POST
  /\ call.qs = EmptyObject
  /\ call.options.extraHeaders = [n \in DebugHeaderNames |-> CallerValue(n)]
  /\ response.statusCode = Num(401)
  /\ Len(log) = 3
  /\ log[1].payload.headers =
       [n \in DebugHeaderNames \cup {H_Accept, H_Authorization, H_Token, H_ContentType} |->
          IF n = H_Accept THEN V_Json
          ELSE IF n = H_ContentType THEN V_Json
          ELSE IF n = H_Custom THEN CallerValue(H_Custom)
          ELSE <<"[REDACTED]">>]
  /\ log[3].phase = "responseError"

\* --------------------------------------------------------- claims on execute

\* How many times the transport was invoked for row r.
Invocations(r) == Cardinality({k \in 1..Len(transportLog) : transportLog[k] = r})

RECURSIVE RowsFrom(_, _)
\* The output rows input row r appended, in the order of returnData, from
\* position k on.
RowsFrom(r, k) ==
  IF k > Len(returnData) THEN <<>>
  ELSE IF origin[k] = r THEN <<returnData[k]>> \o RowsFrom(r, k + 1)
  ELSE RowsFrom(r, k + 1)

RowsOf(r) == RowsFrom(r, 1)

\* C3: within one batch the rows' network calls are made one at a time in
\* index order: at most one call is in flight, it is the latest one made, and
\* each call is made for a later row than every call before it, so that a
\* row's call is made only after the calls of the rows before it resolved.
C3_RowsStrictlySequential ==
  /\ Cardinality(inflight) <= 1
  /\ \A r \in inflight :
       /\ transportLog # <<>>
       /\ r = transportLog[Len(transportLog)]
       /\ r = i
       /\ pc = "await"
  /\ pc = "loop" => inflight = {}
  /\ \A j, k \in 1..Len(transportLog) : j < k => transportLog[j] < transportLog[k]
  /\ \A k \in 1..Len(rowLog) : rowLog[k].row = k - 1

C3_Witness ==
  /\ pc = "await"
  /\ inflight = {1}
  /\ transportLog = <<0, 1>>
  /\ Len(rowLog) = 1

\* What continue-on-failure guarantees in every state: no throw, one
\* {error: message} row for each failed row, the loop past that row, and a
\* return only after every row.
C4_Captured ==
  continueOnFail =>
    /\ pc # "thrown"
    /\ thrown = <<>>
    /\ \A k \in 1..Len(rowLog) :
         rowLog[k].failed =>
           /\ RowsOf(rowLog[k].row) = <<ErrorRow(rowLog[k].message)>>
           /\ i > rowLog[k].row
    /\ pc = "returned" =>
         /\ Len(rowLog) = nItems
         /\ result = <<returnData>>

\* C4: with continue-on-failure, a row that fails in any way (a parameter
\* or configuration error, a transport error, a malformed response, an HTTP
\* failure, an error while shaping) appends exactly one output row,
\* {error: message}; execute() never throws, the loop moves to the next row,
\* and execute() eventually returns, having processed every row.
C4_ContinueOnFail == [](C4_Captured) /\ (continueOnFail ~> pc = "returned")

C4_Witness ==
  /\ continueOnFail
  /\ pc = "returned"
  /\ nItems = 2
  /\ rowLog[1].failed
  /\ rowLog[1].message = E_MissingStatus
  /\ rowLog[2].failed
  /\ rowLog[2].message = E_Transport
  /\ returnData = <<ErrorRow(E_MissingStatus), ErrorRow(E_Transport)>>

\* C5: without continue-on-failure the first failing row ends the batch:
\* execute() throws that row's error, returns no rows, makes no network call
\* for a later row, and does nothing more.
C5_FirstFailureAborts ==
  ~continueOnFail =>
    /\ \A k \in 1..Len(rowLog) :
         rowLog[k].failed =>
           /\ k = Len(rowLog)
           /\ pc = "thrown"
           /\ thrown = rowLog[k].message
    /\ pc = "thrown" =>
         /\ rowLog # <<>>
         /\ rowLog[Len(rowLog)].failed
         /\ result = <<>>
         /\ inflight = {}
         /\ \A k \in 1..Len(transportLog) : transportLog[k] <= rowLog[Len(rowLog)].row
         /\ ~ENABLED Next
    /\ pc = "returned" => \A k \in 1..Len(rowLog) : ~rowLog[k].failed

C5_Witness ==
  /\ ~continueOnFail
  /\ pc = "thrown"
  /\ nItems = 2
  /\ Len(rowLog) = 1
  /\ thrown # E_Transport
  /\ thrown \notin ConfigErrors \cup {E_MissingStatus, E_Parameter, E_TypeError}
  /\ transportLog = <<0>>

\* The credentials with which the dispatcher reaches the transport.
ValidConfiguration(c) ==
  /\ ~ListedMisconfiguration(c)
  /\ c.baseUrlLocal # Str(<<"/">>)

\* C6: a dispatcher call with a valid configuration invokes the transport
\* exactly once, any row at most once (a transport failure or a non-2xx
\* response is not retried), a row that fails before the transport not at
\* all; over the batch there are never more transport invocations than rows
\* begun.
C6_OneCallNoRetry ==
  /\ \A r \in 0..nItems : Invocations(r) <= 1
  /\ \A k \in 1..Len(rowLog) :
       Invocations(rowLog[k].row) =
         IF rowLog[k].dispatched /\ ValidConfiguration(credentials) THEN 1 ELSE 0
  /\ \A r \in inflight : Invocations(r) = 1
  /\ Len(transportLog) <= Len(rowLog) + Cardinality(inflight)
  /\ Len(transportLog) <= nItems

C6_Witness ==
  /\ continueOnFail
  /\ Len(rowLog) = 2
  /\ rowLog[1].message = E_Transport
  /\ rowLog[2].failed
  /\ rowLog[2].message \notin {E_Transport, E_MissingStatus, E_Parameter, E_TypeError}
  /\ transportLog = <<0, 1>>

\* C7: a row that succeeds with an array of n elements appends exactly n
\* output rows, one per element in element order (none for an empty array);
\* a row that succeeds with anything else appends exactly one row holding it;
\* the output rows are in the order of the input rows.
C7_ArrayExpansion ==
  /\ Len(origin) = Len(returnData)
  /\ \A j, k \in 1..Len(origin) : j < k => origin[j] <= origin[k]
  /\ \A k \in 1..Len(rowLog) :
       ~rowLog[k].failed =>
         LET d == rowLog[k].responseData
             rows == RowsOf(rowLog[k].row)
         IN IF d.t = "array"
              THEN /\ Len(rows) = Len(d.elems)
                   /\ \A e \in 1..Len(rows) : rows[e] = [json |-> d.elems[e]]
              ELSE rows = <<[json |-> d]>>

C7_Witness ==
  /\ pc = "returned"
  /\ nItems = 2
  /\ rowLog[1].responseData = ArrayBody(0)
  /\ rowLog[2].responseData = ArrayBody(2)
  /\ returnData = <<[json |-> Element(1)], [json |-> Element(2)]>>
  /\ origin = <<1, 1>>

====
